---- MODULE Spec2Model ----
(***************************************************************************)
(* A model of ai_assistant.py: the module-level configuration load, the    *)
(* argument parsing and dispatch of main(), the three command handlers,    *)
(* the provider dispatcher and the Anthropic client.                       *)
(*                                                                         *)
(* Python values are tagged records ([t |-> "str", v |-> ...]); a Python   *)
(* string is its sequence of characters, so that startswith, strip, join   *)
(* and splitlines are computed and not assumed.                            *)
(*                                                                         *)
(* Two specifications:                                                     *)
(*   Spec      the process as the interpreter runs the file, from the      *)
(*             first module-level statement (CONFIG not yet bound);        *)
(*   SpecBound the same statements run with the name CONFIG already bound  *)
(*             to an empty mapping in the module's globals (as             *)
(*             runpy.run_path(path, init_globals={"CONFIG": {}}) runs      *)
(*             them), so that print_debug can read it during the load.     *)
(***************************************************************************)
EXTENDS Integers, Sequences, FiniteSets, TLC

VARIABLES
    pc,          \* position of the single thread of control
    configFile,  \* the file at CONFIG_PATH: missing, unparsable, or its parsed YAML
    CONFIG,      \* the module global CONFIG (unbound until line 165 assigns it)
    argv,        \* sys.argv[1:]
    args,        \* the argparse namespace main() works with
    call,        \* the pending handle_fix_error / call_ai_api frame
    response,    \* the value call_ai_api returned to the handler
    stdout,      \* what was printed on stdout, in order
    stderr,      \* what was printed on stderr, in order
    requests,    \* the requests sent to the provider (client.messages.create)
    apiResult,   \* what the provider answered to the last request
    dispatcherCalls, \* how many times call_ai_api was entered
    exitStatus   \* the process exit status (-1 while running)

vars == <<pc, configFile, CONFIG, argv, args, call, response, stdout, stderr,
          requests, apiResult, dispatcherCalls, exitStatus>>

-----------------------------------------------------------------------------
(* Python values *)

None == [t |-> "none"]
Unbound == [t |-> "unbound"]
Str(s) == [t |-> "str", v |-> s]
Bool(b) == [t |-> "bool", b |-> b]
Num(n) == [t |-> "int", n |-> n]
Map(m) == [t |-> "map", m |-> m]

\* bool(x)
Truthy(x) ==
    CASE x.t = "str" -> x.v # <<>>
      [] x.t = "bool" -> x.b
      [] x.t = "int" -> x.n # 0
      [] x.t = "map" -> DOMAIN x.m # {}
      [] OTHER -> FALSE

\* d.get(k, default) on a dict d
Get(d, k, default) == IF k \in DOMAIN d.m THEN d.m[k] ELSE default

\* s.startswith(p)
StartsWith(s, p) == Len(s) >= Len(p) /\ SubSeq(s, 1, Len(p)) = p

(* string literals of the source *)
S_api_provider == <<"a","p","i","_","p","r","o","v","i","d","e","r">>
S_api_key == <<"a","p","i","_","k","e","y">>
S_debug_mode == <<"d","e","b","u","g","_","m","o","d","e">>
S_auto_fix_errors == <<"a","u","t","o","_","f","i","x","_","e","r","r","o","r","s">>
S_anthropic == <<"a","n","t","h","r","o","p","i","c">>
S_openai == <<"o","p","e","n","a","i">>
S_YOUR_ == <<"Y","O","U","R","_">>
S_chat == <<"c","h","a","t">>
S_fix == <<"f","i","x">>
S_build == <<"b","u","i","l","d">>
S_internal_fix_error ==
    <<"-","-","i","n","t","e","r","n","a","l","-","f","i","x","-","e","r","r","o","r">>
S_opt_command == <<"-","-","c","o","m","m","a","n","d">>
S_opt_exit_code == <<"-","-","e","x","i","t","_","c","o","d","e">>
S_h == <<"-","h">>
S_help == <<"-","-","h","e","l","p">>
S_unknown == <<"u","n","k","n","o","w","n">>
S_OpenAI_not_ready ==
    <<"O","p","e","n","A","I"," ","s","u","p","p","o","r","t"," ","n","o","t"," ",
      "r","e","a","d","y",".">>
S_unexpected_format == <<"E","r","r","o","r",":"," ","R","e","c","e","i","v","e","d"," ",
      "u","n","e","x","p","e","c","t","e","d"," ","r","e","s","p","o","n","s","e"," ",
      "f","o","r","m","a","t"," ","f","r","o","m"," ","A","P","I",".">>

-----------------------------------------------------------------------------
(* print_debug and load_config *)

\* What one print_debug call does with the global CONFIG as it is then bound:
\* NameError when the name CONFIG is not bound yet, else the stderr lines.
print_debug(G, tag) ==
    IF G.t = "unbound" THEN [raised |-> TRUE, err |-> <<>>]
    ELSE IF Truthy(Get(G, S_debug_mode, Bool(FALSE)))
         THEN [raised |-> FALSE, err |-> <<[debug |-> tag]>>]
         ELSE [raised |-> FALSE, err |-> <<>>]

\* stderr lines of a print_debug call that is known not to raise
Debug(G, tag) == print_debug(G, tag).err

\* validate with the placeholder check of lines 36-37 left out
validate_no_placeholder_check(config) ==
    IF config.t # "map" THEN "AttributeError"
    ELSE LET provider == Get(config, S_api_provider, None) IN
    IF ~Truthy(provider) THEN "ValueError: missing"
    ELSE LET block == IF provider.t = "str"
                      THEN Get(config, provider.v, Map(<<>>))
                      ELSE Map(<<>>) IN
    IF block.t # "map" THEN "AttributeError"
    ELSE LET key == Get(block, S_api_key, None) IN
    IF ~Truthy(key) THEN "ValueError: missing"
    ELSE "ok"

\* load_config lines 34-37, the "basic validation" of the parsed YAML value:
\* "ok", or the exception the two checks end in.
validate(config) ==
    IF config.t # "map" THEN "AttributeError"
    ELSE LET provider == Get(config, S_api_provider, None) IN
    IF ~Truthy(provider) THEN "ValueError: missing"
    ELSE LET block == IF provider.t = "str"
                      THEN Get(config, provider.v, Map(<<>>))
                      ELSE Map(<<>>) IN
    IF block.t # "map" THEN "AttributeError"
    ELSE LET key == Get(block, S_api_key, None) IN
    IF ~Truthy(key) THEN "ValueError: missing"
    ELSE IF key.t # "str" THEN "AttributeError"
    ELSE IF StartsWith(key.v, S_YOUR_) \/ key.v = <<>> THEN "ValueError: placeholder"
    ELSE "ok"

\* load_config(), run with the global CONFIG bound as G and the file as it is.
\* kind: "return" (value is the mapping), "exit" (sys.exit(1) after a message)
\* or "raise" (an exception leaves load_config).
load_config(G, file) ==
    IF print_debug(G, "Looking for config").raised
    THEN [kind |-> "raise", exc |-> "NameError", err |-> <<>>]
    ELSE LET d1 == Debug(G, "Looking for config") IN
    IF file.t = "missing"
    THEN [kind |-> "exit", code |-> 1,
          err |-> d1 \o <<[error |-> "Configuration file not found"],
                          [error |-> "Please copy config.yaml.template"]>>]
    ELSE IF file.t = "badyaml"
    THEN [kind |-> "exit", code |-> 1,
          err |-> d1 \o <<[error |-> "Error parsing configuration file"]>>]
    ELSE LET d2 == d1 \o Debug(G, "Config loaded successfully.")
             v == validate(file.v) IN
    IF v = "ok" THEN [kind |-> "return", value |-> file.v, err |-> d2]
    ELSE IF v = "AttributeError"
    THEN [kind |-> "exit", code |-> 1,
          err |-> d2 \o <<[error |-> "Error loading configuration"]>>]
    ELSE [kind |-> "exit", code |-> 1,
          err |-> d2 \o <<[error |-> "Configuration Error", why |-> v]>>]

-----------------------------------------------------------------------------
(* The inputs: the file beside the script and the command line *)

\* a dict from a set of <<key, value>> pairs with distinct keys
MkDict(pairs) ==
    [k \in {p[1] : p \in pairs} |-> (CHOOSE p \in pairs : p[1] = k)[2]]

S_cohere == <<"c","o","h","e","r","e">>
S_sk == <<"s","k","-","1">>
S_YOUR == <<"Y","O","U","R">>
S_YOUR_KEY == <<"Y","O","U","R","_","K","E","Y">>

\* api_key values tried: absent, empty, the two placeholders, two real keys, a number
ApiKeyVals == {Unbound, Str(<<>>), Str(S_YOUR_), Str(S_YOUR_KEY), Str(S_YOUR), Str(S_sk), Num(7)}
\* a provider block: absent, null, or a mapping with or without api_key
Blocks(keys) ==
    {Unbound, None} \cup
    {Map(MkDict(IF k = Unbound THEN {} ELSE {<<S_api_key, k>>})) : k \in keys}
ProviderVals == {Unbound, Str(<<>>), Str(S_anthropic), Str(S_openai), Str(S_cohere)}
FlagVals == {Unbound, Bool(TRUE), Bool(FALSE)}

\* a pair when the value is present
Entry(k, v) == IF v = Unbound THEN {} ELSE {<<k, v>>}

\* The blocks tried under a provider's name when the document selects p: every
\* block for the selected provider; beside it, anthropic's block is absent or
\* holds a key, and the other providers' blocks are absent.
BlocksFor(name, p) ==
    IF p = Str(name) THEN Blocks(ApiKeyVals)
    ELSE IF name = S_anthropic THEN {Unbound, Map(MkDict({<<S_api_key, Str(S_sk)>>}))}
    ELSE {Unbound}

\* the parsed YAML documents tried: null (an empty file) and mappings
YamlValues ==
    {None} \cup
    UNION {
      {Map(MkDict(Entry(S_api_provider, p) \cup Entry(S_anthropic, a)
                  \cup Entry(S_openai, o) \cup Entry(S_cohere, c)
                  \cup Entry(S_debug_mode, d) \cup Entry(S_auto_fix_errors, f))) :
          a \in BlocksFor(S_anthropic, p), o \in BlocksFor(S_openai, p),
          c \in BlocksFor(S_cohere, p), d \in FlagVals, f \in FlagVals}
      : p \in ProviderVals}

ConfigFiles ==
    {[t |-> "missing"], [t |-> "badyaml"]} \cup {[t |-> "yaml", v |-> y] : y \in YamlValues}

S_gti == <<"g","t","i">>
S_1 == <<"1">>

\* the words a command line is made of
Tokens ==
    {S_chat, S_fix, S_build, S_internal_fix_error, S_opt_command, S_h, <<>>, S_gti}

\* longest command line tried, besides the hook's
MaxArgs == 2

\* the failed commands the shell hook reports (one of them empty)
HookCommands == {<<>>, S_gti, S_chat, S_fix}

\* what the shell hook runs: --internal-fix-error --command C --exit_code E
HookArgvs ==
    {<<S_internal_fix_error, S_opt_command, c, S_opt_exit_code, S_1>> : c \in HookCommands}

Argvs == (UNION {[1..n -> Tokens] : n \in 0..MaxArgs}) \cup HookArgvs

-----------------------------------------------------------------------------
(* String functions *)

Whitespace == {" ", "\n", "\t"}

RECURSIVE LStrip(_)
LStrip(s) == IF s # <<>> /\ s[1] \in Whitespace THEN LStrip(Tail(s)) ELSE s

RECURSIVE RStrip(_)
RStrip(s) ==
    IF s # <<>> /\ s[Len(s)] \in Whitespace THEN RStrip(SubSeq(s, 1, Len(s) - 1)) ELSE s

\* s.strip()
Strip(s) == RStrip(LStrip(s))

\* a join that puts the separator after every word, the last one too
RECURSIVE JoinTrailing(_)
JoinTrailing(words) ==
    IF words = <<>> THEN <<>>
    ELSE words[1] \o <<" ">> \o JoinTrailing(Tail(words))

\* " ".join(words)
RECURSIVE Join(_)
Join(words) ==
    IF words = <<>> THEN <<>>
    ELSE IF Len(words) = 1 THEN words[1]
    ELSE words[1] \o <<" ">> \o Join(Tail(words))

\* s.splitlines(): the lines of s, none for the empty string, no last empty line
\* after a final line break
RECURSIVE SplitLines(_)
SplitLines(s) ==
    IF s = <<>> THEN <<>>
    ELSE IF \E i \in 1..Len(s) : s[i] = "\n"
    THEN LET i == CHOOSE j \in 1..Len(s) : s[j] = "\n" /\ \A k \in 1..(j - 1) : s[k] # "\n"
         IN <<SubSeq(s, 1, i - 1)>> \o SplitLines(SubSeq(s, i + 1, Len(s)))
    ELSE <<s>>

-----------------------------------------------------------------------------
(* main(): the parser built in lines 172-192 and parse_args *)

known_commands == {S_chat, S_fix, S_build, S_internal_fix_error}

IsHelp(tok) == tok \in {S_h, S_help}

\* argparse takes a word for an option string when it starts with the prefix
\* character "-", is longer than that character, and (unless it is an option
\* the parser knows) holds no space; any other word is a positional.
IsOptionString(tok) ==
    /\ Len(tok) > 1
    /\ tok[1] = "-"
    /\ (IsHelp(tok) \/ \A i \in 1..Len(tok) : tok[i] # " ")

\* index of the first positional word, 0 when there is none
FirstPositional(a) ==
    IF \E i \in 1..Len(a) : ~IsOptionString(a[i])
    THEN CHOOSE i \in 1..Len(a) :
            ~IsOptionString(a[i]) /\ \A j \in 1..(i - 1) : IsOptionString(a[j])
    ELSE 0

HasHelp(a) == \E i \in 1..Len(a) : IsHelp(a[i])
AllPositional(a) == \A i \in 1..Len(a) : ~IsOptionString(a[i])

ArgparseHelp(name) == [kind |-> "exit", code |-> 0, parser |-> name]
ArgparseError(why) == [kind |-> "exit", code |-> 2, why |-> why]
Namespace(ns) == [kind |-> "ok", ns |-> ns]
List(l) == [t |-> "list", items |-> l]

\* a subparser run on the words after its name: the namespace attributes it
\* sets (they overwrite the main namespace's), or the exit it ends in
SubParse(name, rest) ==
    IF HasHelp(rest) THEN ArgparseHelp(name)
    ELSE IF name = S_chat
    THEN IF rest # <<>> /\ AllPositional(rest)
         THEN Namespace([query |-> List(rest)])
         ELSE ArgparseError("chat: arguments")
    ELSE IF name = S_build
    THEN IF rest # <<>> /\ AllPositional(rest)
         THEN Namespace([description |-> List(rest)])
         ELSE ArgparseError("build: arguments")
    ELSE IF name = S_fix
    THEN IF rest = <<>> THEN Namespace(<<>>) ELSE ArgparseError("unrecognized arguments")
    ELSE \* --internal-fix-error: --command C and --exit_code E, both required;
         \* their dest names are "command" and "exit_code"
         IF /\ Len(rest) = 4
            /\ rest[1] = S_opt_command /\ rest[3] = S_opt_exit_code
         THEN Namespace([command |-> Str(rest[2]), exit_code |-> Str(rest[4])])
         ELSE ArgparseError("--internal-fix-error: arguments")

\* d1 overwritten by the attributes of d2
Overwrite(d1, d2) ==
    [k \in DOMAIN d1 \cup DOMAIN d2 |-> IF k \in DOMAIN d2 THEN d2[k] ELSE d1[k]]

\* parser.parse_args() on the words a (sys.argv[1:])
parse_args(a) ==
    LET i == FirstPositional(a)
        pre == IF i = 0 THEN a ELSE SubSeq(a, 1, i - 1)
    IN  IF HasHelp(pre) THEN ArgparseHelp("ai")
        ELSE IF i = 0
        THEN IF pre = <<>> THEN Namespace([command |-> None])
             ELSE ArgparseError("unrecognized arguments")
        ELSE IF a[i] \notin known_commands THEN ArgparseError("invalid choice")
        ELSE LET sub == SubParse(a[i], SubSeq(a, i + 1, Len(a))) IN
             IF sub.kind = "exit" THEN sub
             ELSE IF pre # <<>> THEN ArgparseError("unrecognized arguments")
             ELSE Namespace(Overwrite([command |-> Str(a[i])], sub.ns))

-----------------------------------------------------------------------------
(* The provider's answers and the shell history *)

\* texts of a content block
Texts == {<<>>, <<" ">>, <<"a">>, <<" ", "a", "\n">>, <<"a", "\n", "b">>}

\* a content block of a message: a text block or a block of another type
ContentBlocks == {[type |-> "text", text |-> x] : x \in Texts} \cup {[type |-> "tool_use"]}

\* longest message.content tried
MaxBlocks == 2

\* what client.messages.create does: returns a message, or raises
ApiOutcomes ==
    {[kind |-> "message", content |-> c] :
        c \in UNION {[1..n -> ContentBlocks] : n \in 0..MaxBlocks}}
    \cup {[kind |-> "APIStatusError", status_code |-> 401],
          [kind |-> "APIStatusError", status_code |-> 500],
          [kind |-> "APIError"], [kind |-> "Exception"]}

\* what subprocess.run(['fc', '-ln', '-1'], shell=True, check=True) does: its
\* stdout, or an exception (a non-zero exit of the shell, no shell)
HistoryOutcomes ==
    {[kind |-> "raise"]} \cup
    {[kind |-> "stdout", text |-> x] : x \in {<<>>, <<"\n">>, S_gti \o <<"\n">>}}

-----------------------------------------------------------------------------
(* The state machine *)

NoCall == [handler |-> "none"]
NoResult == [kind |-> "none"]

\* the state every run starts in but for CONFIG, the file and the command line
Fresh ==
    /\ args = <<>>
    /\ call = NoCall
    /\ response = Unbound
    /\ stdout = <<>>
    /\ stderr = <<>>
    /\ requests = <<>>
    /\ apiResult = NoResult
    /\ dispatcherCalls = 0
    /\ exitStatus = -1

\* the interpreter starts the script: nothing is bound yet
Init ==
    /\ pc = "module"
    /\ configFile \in ConfigFiles
    /\ CONFIG = Unbound
    /\ argv \in Argvs
    /\ Fresh

\* the process ends with the given status
Exit(status) == pc' = "exited" /\ exitStatus' = status

\* lines 163-168: CONFIG = load_config(), SystemExit turned into sys.exit(1); any
\* other exception is uncaught: the interpreter prints the traceback and exits 1
ModuleLoad ==
    /\ pc = "module"
    /\ LET r == load_config(CONFIG, configFile) IN
        IF r.kind = "return"
        THEN /\ CONFIG' = r.value
             /\ stderr' = stderr \o r.err
             /\ pc' = "main"
             /\ UNCHANGED exitStatus
        ELSE IF r.kind = "exit"
        THEN /\ stderr' = stderr \o r.err
             /\ Exit(1)
             /\ UNCHANGED CONFIG
        ELSE /\ stderr' = stderr \o <<[traceback |-> r.exc]>>
             /\ Exit(1)
             /\ UNCHANGED CONFIG
    /\ UNCHANGED <<configFile, argv, args, call, response, stdout, requests, apiResult, dispatcherCalls>>

\* the stdout lines of format_ai_response(response_text, title)
format_ai_response(response_text, title) ==
    LET lines == SplitLines(response_text) IN
    <<[kind |-> "title", title |-> title]>>
    \o [i \in 1..Len(lines) |-> [kind |-> "line", text |-> <<" ", " ", " ">> \o lines[i]]]
    \o <<[kind |-> "blank"]>>

\* lines 194-244 of main(): "chat" put before a bare query, parse_args with
\* SystemExit swallowed, the help fallback, and the dispatch on args.command
Main ==
    /\ pc = "main"
    /\ LET a == IF argv # <<>> /\ argv[1] \notin known_commands /\ ~StartsWith(argv[1], <<"-">>)
                THEN <<S_chat>> \o argv ELSE argv
           r == parse_args(a)
           out == IF r.kind = "exit" /\ r.code = 0 THEN <<[kind |-> "help", parser |-> r.parser]>>
                  ELSE <<>>
           err == IF r.kind = "exit" /\ r.code # 0
                  THEN <<[usage |-> "ai"], [error |-> "argparse", why |-> r.why]>>
                  ELSE <<>>
       IN
        /\ argv' = a
        /\ IF r.kind = "exit" \/ r.ns.command = None
           THEN \* args is None, or no command was parsed
                /\ IF a = <<>> \/ IsHelp(a[1])
                   THEN /\ stdout' = stdout \o out \o <<[kind |-> "help", parser |-> "ai"]>>
                        /\ stderr' = stderr \o err
                   ELSE /\ stdout' = stdout \o out
                        /\ stderr' = stderr \o err \o <<[error |-> "Invalid usage"]>>
                /\ Exit(1)
                /\ UNCHANGED <<args, call>>
           ELSE /\ args' = r.ns
                /\ UNCHANGED <<stdout, stderr>>
                /\ IF r.ns.command = Str(S_chat)
                   THEN pc' = "handle_chat" /\ UNCHANGED <<call, exitStatus>>
                   ELSE IF r.ns.command = Str(S_fix)
                   THEN pc' = "fix" /\ UNCHANGED <<call, exitStatus>>
                   ELSE IF r.ns.command = Str(S_build)
                   THEN pc' = "handle_build" /\ UNCHANGED <<call, exitStatus>>
                   ELSE IF r.ns.command = Str(S_internal_fix_error)
                   THEN /\ pc' = "handle_fix_error"
                        /\ call' = [handler |-> "fix", command |-> r.ns.command.v,
                                    exit_code |-> r.ns.exit_code.v, is_automatic |-> TRUE]
                        /\ UNCHANGED exitStatus
                   ELSE \* no branch matches: main() returns
                        Exit(0) /\ UNCHANGED call
    /\ UNCHANGED <<configFile, CONFIG, response, requests, apiResult, dispatcherCalls>>

\* handle_chat, lines 120-129, up to the call of call_ai_api
HandleChat ==
    /\ pc = "handle_chat"
    /\ IF "query" \notin DOMAIN args
       THEN \* args.query: AttributeError, uncaught
            /\ stderr' = stderr \o <<[traceback |-> "AttributeError"]>>
            /\ Exit(1)
            /\ UNCHANGED call
       ELSE LET query == Join(args.query.items) IN
            IF query = <<>>
            THEN /\ stderr' = stderr \o <<[error |-> "Please provide a question for the chat."]>>
                 /\ Exit(1)
                 /\ UNCHANGED call
            ELSE /\ stderr' = stderr \o Debug(CONFIG, "Chat query")
                 /\ call' = [handler |-> "chat", title |-> [text |-> "AI Chat"],
                             prompt |-> [template |-> "The user asked the following question",
                                         query |-> query]]
                 /\ pc' = "call_ai_api"
                 /\ UNCHANGED exitStatus
    /\ UNCHANGED <<configFile, CONFIG, argv, args, response, stdout, requests, apiResult, dispatcherCalls>>

\* main() lines 225-239: the manual fix asks the shell for the last history entry
FixFromHistory ==
    /\ pc = "fix"
    /\ \E h \in HistoryOutcomes :
        IF h.kind = "raise"
        THEN /\ stderr' = stderr \o <<[error |-> "Error retrieving last command from history"],
                                      [error |-> "Please run 'ai fix' immediately"]>>
             /\ Exit(0)
             /\ UNCHANGED call
        ELSE /\ stderr' = stderr \o Debug(CONFIG, "Manual 'fix' invoked.")
             /\ call' = [handler |-> "fix", command |-> Strip(h.text),
                         exit_code |-> S_unknown, is_automatic |-> FALSE]
             /\ pc' = "handle_fix_error"
             /\ UNCHANGED exitStatus
    /\ UNCHANGED <<configFile, CONFIG, argv, args, response, stdout, requests, apiResult, dispatcherCalls>>

\* handle_fix_error, lines 133-152, up to the call of call_ai_api
HandleFixError ==
    /\ pc = "handle_fix_error"
    /\ IF call.command = <<>>
       THEN /\ stderr' = stderr \o <<[error |-> "Could not determine the command that failed."]>>
            /\ Exit(0)
            /\ UNCHANGED call
       ELSE IF call.is_automatic /\ ~Truthy(Get(CONFIG, S_auto_fix_errors, Bool(FALSE)))
       THEN /\ stderr' = stderr \o Debug(CONFIG, "Fix error requested")
                                \o Debug(CONFIG, "Automatic error fixing is disabled")
            /\ Exit(0)
            /\ UNCHANGED call
       ELSE /\ stderr' = stderr \o Debug(CONFIG, "Fix error requested")
            /\ call' = [handler |-> "fix",
                        title |-> [text |-> "AI Fix Suggestion", for |-> call.command],
                        prompt |-> [template |-> "The following shell command failed",
                                    exit_code |-> call.exit_code, command |-> call.command]]
            /\ pc' = "call_ai_api"
            /\ UNCHANGED exitStatus
    /\ UNCHANGED <<configFile, CONFIG, argv, args, response, stdout, requests, apiResult, dispatcherCalls>>

\* handle_build, lines 156-158, and the return from main()
HandleBuild ==
    /\ pc = "handle_build"
    /\ stdout' = stdout \o <<[kind |-> "not implemented"]>>
    /\ Exit(0)
    /\ UNCHANGED <<configFile, CONFIG, argv, args, call, response, stderr, requests, apiResult, dispatcherCalls>>

S_default_model == <<"c","l","a","u","d","e","-","3","-","s","o","n","n","e","t","-",
                     "2","0","2","4","0","2","2","9">>
DefaultMaxTokens == 500

\* the provider read under a key the configuration does not hold, so that the
\* default is always taken
configured_provider_wrong_key(G) == Get(G, <<"p","r","o","v","i","d","e","r">>, Str(S_anthropic))

\* line 95: provider = CONFIG.get('api_provider', 'anthropic')
configured_provider(G) == Get(G, S_api_provider, Str(S_anthropic))

\* call_ai_api, lines 93-107: the dispatch on the configured provider
CallAiApi ==
    /\ pc = "call_ai_api"
    /\ LET provider == configured_provider(CONFIG)
           d == Debug(CONFIG, "Using API provider") IN
        IF provider = Str(S_anthropic)
        THEN /\ stderr' = stderr \o d
             /\ pc' = "call_anthropic_api"
             /\ UNCHANGED response
        ELSE IF provider = Str(S_openai)
        THEN /\ stderr' = stderr \o d \o <<[warning |-> "OpenAI support is not fully implemented yet."]>>
             /\ response' = Str(S_OpenAI_not_ready)
             /\ pc' = "returned"
        ELSE /\ stderr' = stderr \o d \o <<[error |-> "Unknown API provider", provider |-> provider]>>
             /\ response' = None
             /\ pc' = "returned"
    /\ dispatcherCalls' = dispatcherCalls + 1
    /\ UNCHANGED <<configFile, CONFIG, argv, args, call, stdout, requests, apiResult, exitStatus>>

\* call_anthropic_api, lines 49-72: the parameters from CONFIG, the api_key check,
\* and the one client.messages.create request
CallAnthropicApi ==
    /\ pc = "call_anthropic_api"
    /\ LET provider_config == Get(CONFIG, S_anthropic, Map(<<>>)) IN
        IF provider_config.t # "map"
        THEN \* provider_config.get: AttributeError, uncaught
             /\ stderr' = stderr \o <<[traceback |-> "AttributeError"]>>
             /\ Exit(1)
             /\ UNCHANGED <<response, requests>>
        ELSE LET api_key == Get(provider_config, S_api_key, None) IN
        IF ~Truthy(api_key)
        THEN /\ stderr' = stderr \o <<[error |-> "Anthropic API key not found in config."]>>
             /\ response' = None
             /\ pc' = "returned"
             /\ UNCHANGED <<requests, exitStatus>>
        ELSE /\ stderr' = stderr \o Debug(CONFIG, "Calling Anthropic API.")
             /\ requests' = Append(requests,
                    [api_key |-> api_key, model |-> S_default_model,
                     max_tokens |-> DefaultMaxTokens, prompt |-> call.prompt])
             /\ pc' = "awaiting_api"
             /\ UNCHANGED <<response, exitStatus>>
    /\ UNCHANGED <<configFile, CONFIG, argv, args, call, stdout, apiResult, dispatcherCalls>>

\* the text taken from the first text block wherever it stands in the list
ExtractFirstTextAnywhere(content) ==
    IF \E i \in 1..Len(content) : content[i].type = "text"
    THEN LET i == CHOOSE j \in 1..Len(content) :
                    content[j].type = "text" /\ \A k \in 1..(j - 1) : content[k].type # "text"
         IN Str(Strip(content[i].text))
    ELSE Str(S_unexpected_format)

\* call_anthropic_api lines 75-79: the text taken from a returned message
ExtractText(content) ==
    IF content # <<>> /\ content[1].type = "text"
    THEN Str(Strip(content[1].text))
    ELSE Str(S_unexpected_format)

\* a client that returns an error text, not None, when the request raises
client_result_error_text(r) ==
    IF r.kind = "message" THEN ExtractText(r.content) ELSE Str(S_unexpected_format)

\* call_anthropic_api lines 73-91: what the function returns for what the
\* request did (None after each of the three except clauses)
client_result(r) == IF r.kind = "message" THEN ExtractText(r.content) ELSE None

\* call_anthropic_api, lines 73-91: the message comes back, or the request raises
AnthropicReply ==
    /\ pc = "awaiting_api"
    /\ \E r \in ApiOutcomes :
        /\ apiResult' = r
        /\ response' = client_result(r)
        /\ IF r.kind = "message"
           THEN /\ stderr' = stderr \o Debug(CONFIG, "API call successful.")
                     \o (IF r.content # <<>> /\ r.content[1].type = "text" THEN <<>>
                         ELSE Debug(CONFIG, "Unexpected API response structure"))
           ELSE /\ stderr' = stderr \o
                     (IF r.kind = "APIStatusError"
                      THEN <<[error |-> "Anthropic API Error (Status)", status_code |-> r.status_code]>>
                           \o (IF r.status_code = 401
                               THEN <<[error |-> "Check if your API key is correct and has permissions."]>>
                               ELSE <<>>)
                      ELSE IF r.kind = "APIError"
                      THEN <<[error |-> "Anthropic API Error"]>>
                      ELSE <<[error |-> "An unexpected error occurred during API call"]>>)
    /\ pc' = "returned"
    /\ UNCHANGED <<configFile, CONFIG, argv, args, call, stdout, requests, dispatcherCalls, exitStatus>>

\* the response printed whenever it is not None (an empty text too)
print_if_not_none(resp, title) ==
    IF resp.t = "str" THEN format_ai_response(resp.v, title) ELSE <<>>

\* lines 130-131 and 153-154: if response: format_ai_response(response, title)
print_if_response(resp, title) ==
    IF Truthy(resp) THEN format_ai_response(resp.v, title) ELSE <<>>

\* the handlers' last lines: the response is printed if it is truthy; then the
\* handler and main() return
PrintResponse ==
    /\ pc = "returned"
    /\ stdout' = stdout \o print_if_response(response, call.title)
    /\ Exit(0)
    /\ UNCHANGED <<configFile, CONFIG, argv, args, call, response, stderr, requests, apiResult, dispatcherCalls>>

-----------------------------------------------------------------------------
(* The specifications *)

Next == ModuleLoad

Spec == Init /\ [][Next]_vars

\* the same statements with the name CONFIG already bound to an empty mapping
InitBound ==
    /\ pc = "module"
    /\ configFile \in ConfigFiles
    /\ CONFIG = Map(<<>>)
    /\ argv \in Argvs
    /\ Fresh

NextBound ==
    \/ ModuleLoad
    \/ Main
    \/ HandleChat
    \/ FixFromHistory
    \/ HandleFixError
    \/ HandleBuild
    \/ CallAiApi
    \/ CallAnthropicApi
    \/ AnthropicReply
    \/ PrintResponse

SpecBound == InitBound /\ [][NextBound]_vars

-----------------------------------------------------------------------------
(* What the claims speak of *)

\* stderr holds the error message with this text
HasErr(tag) ==
    \E i \in 1..Len(stderr) : "error" \in DOMAIN stderr[i] /\ stderr[i].error = tag

\* stdout holds a formatted response block
HasBlock == \E i \in 1..Len(stdout) : stdout[i].kind = "title"

IsSpace(ch) == ch = " " \/ ch = "\n" \/ ch = "\t"

\* r is s without its leading and trailing whitespace
IsTrimOf(r, s) ==
    \E i \in 1..(Len(s) + 1) : \E j \in 0..Len(s) :
        /\ r = [k \in 1..(j - i + 1) |-> s[i + k - 1]]
        /\ \A k \in 1..(i - 1) : IsSpace(s[k])
        /\ \A k \in (j + 1)..Len(s) : IsSpace(s[k])
        /\ (j >= i => ~IsSpace(s[i]) /\ ~IsSpace(s[j]))
        /\ j >= i - 1

\* the api_key a document holds under the block of the provider it selects,
\* Unbound when the provider, the block or the key is not there
SelectedKey(doc) ==
    IF doc.t # "map" \/ S_api_provider \notin DOMAIN doc.m THEN Unbound
    ELSE LET p == doc.m[S_api_provider] IN
         IF p.t # "str" \/ p.v \notin DOMAIN doc.m THEN Unbound
         ELSE LET b == doc.m[p.v] IN
              IF b.t # "map" \/ S_api_key \notin DOMAIN b.m THEN Unbound
              ELSE b.m[S_api_key]

IsPlaceholder(k) ==
    Len(k) >= 5 /\ k[1] = "Y" /\ k[2] = "O" /\ k[3] = "U" /\ k[4] = "R" /\ k[5] = "_"

\* a non-empty, non-placeholder text key
GoodKey(k) == k.t = "str" /\ k.v # <<>> /\ ~IsPlaceholder(k.v)

\* the configuration is invalid in one of the ways C1 lists
InvalidConfig(file) ==
    \/ file.t \in {"missing", "badyaml"}
    \/ /\ file.t = "yaml"
       /\ LET k == SelectedKey(file.v) IN
            k = Unbound \/ (k.t = "str" /\ (k.v = <<>> \/ IsPlaceholder(k.v)))

\* the configuration is valid as C2 describes it
ValidConfig(file) == file.t = "yaml" /\ GoodKey(SelectedKey(file.v))

\* load_config printed one of its four failure messages
LoadFailed ==
    \/ HasErr("Configuration file not found")
    \/ HasErr("Error parsing configuration file")
    \/ HasErr("Error loading configuration")
    \/ HasErr("Configuration Error")

\* the command line is a chat invocation with empty query text: "chat" alone,
\* "chat" with one empty word, or one empty bare word
EmptyChat == argv \in {<<S_chat>>, <<S_chat, <<>>>>, << <<>> >>}

\* the command line the hook builds for the failed command c
HookArgv(c) == <<S_internal_fix_error, S_opt_command, c, S_opt_exit_code, S_1>>

FlagOn(doc, k) == doc.t = "map" /\ k \in DOMAIN doc.m /\ doc.m[k] = Bool(TRUE)

FailedKinds == {"APIStatusError", "APIError", "Exception"}

-----------------------------------------------------------------------------
(* The claims *)

\* C1: a run whose configuration is invalid (file missing, YAML unparsable, no
\* api_provider, no api_key under the selected provider's block, or an empty or
\* "YOUR_..." api_key) ends with a non-zero exit status, never enters the
\* dispatcher and sends no request; and whenever a request has been sent, the
\* loaded configuration holds a non-empty, non-placeholder api_key for the
\* selected provider.
C1_InvalidConfigExitsWithoutCall ==
    /\ (InvalidConfig(configFile) /\ pc # "module")
          => (pc = "exited" /\ exitStatus > 0 /\ requests = <<>> /\ dispatcherCalls = 0)
    /\ requests # <<>> => /\ CONFIG = configFile.v
                          /\ GoodKey(SelectedKey(CONFIG))
                          /\ requests[1].api_key = SelectedKey(CONFIG)

C1_Witness ==
    /\ pc = "exited"
    /\ configFile.t = "yaml"
    /\ SelectedKey(configFile.v) = Str(S_YOUR_KEY)
    /\ HasErr("Configuration Error")

\* C2 (as claimed): with a valid configuration file the startup load_config
\* returns the parsed mapping, the process does not end during loading, and
\* CONFIG is bound to the mapping when main() starts.
C2_ValidConfigIsLoaded ==
    (ValidConfig(configFile) /\ pc # "module") => (pc = "main" /\ CONFIG = configFile.v)

\* C3: a chat invocation with empty query text never enters the provider
\* dispatcher, sends no request, and ends with exit status 1.
C3_EmptyChatExitsOne ==
    EmptyChat => /\ dispatcherCalls = 0
                 /\ requests = <<>>
                 /\ (pc = "exited" => exitStatus = 1)

C3_Witness ==
    /\ argv = <<S_chat, <<>>>>
    /\ pc = "exited"
    /\ HasErr("Please provide a question for the chat.")

\* C4 (as claimed): run as --internal-fix-error --command C --exit_code E with
\* a non-empty C and auto_fix_errors on, the run makes exactly one provider
\* request, whose prompt is the fix prompt holding C and E.
C4_HookMakesOneFixRequest ==
    \A c \in HookCommands \ {<<>>} :
        (/\ argv = HookArgv(c)
         /\ pc = "exited"
         /\ ValidConfig(configFile)
         /\ configFile.v.m[S_api_provider] = Str(S_anthropic)
         /\ FlagOn(configFile.v, S_auto_fix_errors))
        => /\ Len(requests) = 1
           /\ requests[1].prompt.template = "The following shell command failed"
           /\ requests[1].prompt.command = c
           /\ requests[1].prompt.exit_code = S_1

\* C5 (as claimed): with auto_fix_errors false or absent and debug_mode off, a
\* run as --internal-fix-error --command C --exit_code E prints nothing on
\* stdout or stderr and sends no request, whatever C is.
C5_HookSilentWhenDisabled ==
    (/\ argv \in HookArgvs
     /\ ValidConfig(configFile)
     /\ ~FlagOn(configFile.v, S_auto_fix_errors)
     /\ ~FlagOn(configFile.v, S_debug_mode))
    => (stdout = <<>> /\ stderr = <<>> /\ requests = <<>>)

C7_UnknownProviderNoCall ==
    (/\ dispatcherCalls > 0
     /\ S_api_provider \in DOMAIN CONFIG.m
     /\ CONFIG.m[S_api_provider] \notin {Str(S_anthropic), Str(S_openai)})
    => /\ requests = <<>>
       /\ response = None
       /\ HasErr("Unknown API provider")
       /\ ~HasBlock

C7_Witness ==
    /\ dispatcherCalls > 0
    /\ CONFIG.m[S_api_provider] = Str(S_cohere)
    /\ S_anthropic \in DOMAIN CONFIG.m
    /\ pc = "exited"
    /\ exitStatus = 0

C9_ExitStatus ==
    pc = "exited" =>
        exitStatus = IF \/ LoadFailed
                        \/ HasErr("Please provide a question for the chat.")
                        \/ HasErr("argparse")
                        \/ argv = <<>>
                     THEN 1 ELSE 0

\* C10: a run sends at most one request; after a request that raised (API
\* status error, API error, any other exception) a diagnostic is on stderr,
\* the result is None, no second request follows and no response block is
\* printed.
C10_NoRetry ==
    /\ Len(requests) <= 1
    /\ apiResult.kind \in FailedKinds =>
          /\ Len(requests) = 1
          /\ response = None
          /\ \/ HasErr("Anthropic API Error (Status)")
             \/ HasErr("Anthropic API Error")
             \/ HasErr("An unexpected error occurred during API call")
          /\ ~HasBlock

C10_Witness ==
    /\ apiResult.kind = "APIStatusError"
    /\ apiResult.status_code = 401
    /\ HasErr("Check if your API key is correct and has permissions.")
    /\ pc = "exited"
    /\ exitStatus = 0

====
